---- MODULE Spec2Model ----
(***************************************************************************)
(* nano-tournament front end: the landing screen (Home) and the session    *)
(* screen (BattleSession) in its four versions.                            *)
(*                                                                         *)
(* JavaScript strings are sequences of one-character strings, so that      *)
(* trim(), toUpperCase() and length are computed and not assumed.  A React *)
(* component's state is one variable per useState; an async handler is one *)
(* action per await, with the values its closure captured kept in their    *)
(* own variables; an effect runs in the step that changes its dependencies.*)
(***************************************************************************)
EXTENDS Integers, Sequences, FiniteSets, TLC

VARIABLES
    \* ---- Home (landing screen) ----
    sessionCode,        \* useState("")
    homeIsJoining,      \* Home's isJoining
    isCreating,         \* useState(false)
    homeJoinPc,         \* handleJoinSession (Home): "idle" | "sleep"
    homeJoinCode,       \* sessionCode captured by the running handleJoinSession
    createPc,           \* handleCreateSession: "idle" | "fetch"
    pushed,             \* the paths given to router.push, in order
    homeMounted,        \* Home is on screen
    homeLast,           \* the operation of Home the last step ran
    \* ---- BattleSession (session screen) ----
    variant,            \* which version of the component is mounted
    mounted,            \* the component is mounted
    location,           \* window.location set by the screen (NoNav: untouched)
    gameState,
    playerName,
    currentPlayer,      \* <<>> (null) or <<participant>>
    participants,
    isJoining,
    prompt,
    isCreatingCharacter,
    generatedImage,
    isStartingGame,
    battleResults,      \* <<>> (null) or <<results>>
    isConnected,
    battleStartTimer,
    waitingTimer,
    realParticipants,
    battleTimeout,      \* a setTimeout of the battle start effect is pending
    waitingTimeout,     \* a setTimeout of the waiting effect is pending
    connPc,             \* api.connect(userId): "pending" | "resolved" | "rejected"
    joinPc,             \* handleJoinSession: "idle" or the request awaited
    jName,              \* playerName captured by the running handleJoinSession
    jConn,              \* isConnected captured by the running handleJoinSession
    genPc,              \* handleCreateCharacter: "idle" or "fetch"
    gConn,              \* isConnected captured by the running handleCreateCharacter
    subscribed,         \* the handlers registered with api.on and not removed
    emitted             \* the socket messages sent by the last step

homeVars == <<sessionCode, homeIsJoining, isCreating, homeJoinPc, homeJoinCode,
              createPc, pushed, homeMounted, homeLast>>

viewVars == <<gameState, playerName, currentPlayer, participants, isJoining, prompt,
              isCreatingCharacter, generatedImage, isStartingGame, battleResults,
              isConnected, battleStartTimer, waitingTimer, realParticipants>>

procVars == <<battleTimeout, waitingTimeout, connPc, joinPc, jName, jConn, genPc, gConn,
              subscribed>>

sessionVars == <<variant, mounted, location, viewVars, procVars, emitted>>

vars == <<homeVars, sessionVars>>

-----------------------------------------------------------------------------
(* Strings *)

\* String.prototype.trim: whitespace removed at both ends.
RECURSIVE TrimStart(_)
TrimStart(s) ==
    IF s # <<>> /\ Head(s) = " " THEN TrimStart(Tail(s)) ELSE s

RECURSIVE TrimEnd(_)
TrimEnd(s) ==
    IF s # <<>> /\ s[Len(s)] = " " THEN TrimEnd(SubSeq(s, 1, Len(s) - 1)) ELSE s

Trim(s) == TrimEnd(TrimStart(s))

\* mutant: the other case
UpperChar_Lower(c) ==
    CASE c = "A" -> "a"
      [] c = "B" -> "b"
      [] c = "X" -> "x"
      [] OTHER   -> c

\* String.prototype.toUpperCase, one character.
UpperChar(c) ==
    CASE c = "a" -> "A"
      [] c = "b" -> "B"
      [] c = "x" -> "X"
      [] OTHER   -> c

ToUpperCase(s) == [i \in 1..Len(s) |-> UpperChar(s[i])]

\* `/battle/${id}`
BattlePath(id) == <<"/", "b", "a", "t", "t", "l", "e", "/">> \o id

\* the value undefined, and what a template literal makes of it
Undefined == <<"#undefined">>
TemplateString(v) == IF v = Undefined THEN <<"u", "n", "d", "e", "f", "i", "n", "e", "d">> ELSE v

-----------------------------------------------------------------------------
(* Home: the landing screen (frontend/app/page.tsx) *)

\* The values the one-time-password field reports.
CodeInputs ==
    { <<>>,
      <<"a", "b", "1", "2", "3">>,
      <<"a", "B", "1", "2", "3", "x">>,
      <<"a", "b", "1", "2", "3", "4", "5">> }

\* session ids the backend answers with (Undefined: a body without the field)
ServerSessionIds == { <<"S", "R", "V", "0", "0", "1">>, Undefined }

\* Math.random().toString(36).substring(2, 8).toUpperCase()
LocalCodes == { <<"K", "3", "F", "9", "Z", "Q">>, <<"7", "P">> }

\* answers of POST /session/: the fetch throws, a non-ok status, ok with a body that
\* does not parse, ok with a parsed body
CreateAnswers ==
    { [kind |-> "throw"], [kind |-> "notok"], [kind |-> "badjson"] }
    \cup { [kind |-> "ok", session_id |-> id] : id \in ServerSessionIds }

\* bound on the number of router.push calls one visit is followed through
MaxPush == 3

\* disabled={sessionCode.length !== 6 || isJoining}
JoinButtonDisabled == Len(sessionCode) # 6 \/ homeIsJoining

\* disabled={isCreating}
CreateButtonDisabled == isCreating

\* onValueChange={(value) => setSessionCode(value.toUpperCase())}
SetSessionCode(value) ==
    /\ homeMounted
    /\ sessionCode' = ToUpperCase(value)
    /\ homeLast' = "SetSessionCode"
    /\ UNCHANGED <<homeIsJoining, isCreating, homeJoinPc, homeJoinCode, createPc, pushed,
                   homeMounted>>
    /\ UNCHANGED sessionVars

\* mutant: only the empty code is turned away
HomeJoinRejects_Empty(code) == Len(code) = 0

\* if (sessionCode.length !== 6) return;
HomeJoinRejects(code) == Len(code) # 6

\* handleJoinSession up to its await: the form's submit event.  The button's busy
\* test keeps a second submit out while one runs; the length test is the handler's.
HomeJoinSubmit ==
    /\ homeMounted
    /\ ~homeIsJoining
    /\ homeLast' = "HomeJoinSubmit"
    /\ IF HomeJoinRejects(sessionCode)
       THEN UNCHANGED <<homeIsJoining, homeJoinPc, homeJoinCode>>
       ELSE /\ homeIsJoining' = TRUE
            /\ homeJoinPc' = "sleep"
            /\ homeJoinCode' = sessionCode
    /\ UNCHANGED <<sessionCode, isCreating, createPc, pushed, homeMounted>>
    /\ UNCHANGED sessionVars

\* `/battle/${sessionCode.toUpperCase()}`
HomeJoinPath(code) == BattlePath(ToUpperCase(code))

\* handleJoinSession after the 500 ms: router.push
HomeJoinNavigate ==
    /\ homeJoinPc = "sleep"
    /\ Len(pushed) < MaxPush
    /\ pushed' = Append(pushed, HomeJoinPath(homeJoinCode))
    /\ homeJoinPc' = "idle"
    /\ homeLast' = "HomeJoinNavigate"
    /\ UNCHANGED <<sessionCode, homeIsJoining, isCreating, homeJoinCode, createPc,
                   homeMounted>>
    /\ UNCHANGED sessionVars

\* handleCreateSession up to its await
CreateSessionClick ==
    /\ homeMounted
    /\ ~CreateButtonDisabled
    /\ isCreating' = TRUE
    /\ createPc' = "fetch"
    /\ homeLast' = "CreateSessionClick"
    /\ UNCHANGED <<sessionCode, homeIsJoining, homeJoinPc, homeJoinCode, pushed, homeMounted>>
    /\ UNCHANGED sessionVars

\* mutant: the answer's session id is not used
CreateSessionPath_Local(answer, randomCode) == BattlePath(randomCode)

\* the path handleCreateSession pushes for an answer of POST /session/
CreateSessionPath(answer, randomCode) ==
    IF answer.kind = "ok"
    THEN BattlePath(TemplateString(answer.session_id))
    ELSE BattlePath(randomCode)

\* handleCreateSession from the fetch's answer to the end of its finally
CreateSessionDone(answer, randomCode) ==
    /\ createPc = "fetch"
    /\ Len(pushed) < MaxPush
    /\ pushed' = Append(pushed, CreateSessionPath(answer, randomCode))
    /\ isCreating' = FALSE
    /\ createPc' = "idle"
    /\ homeLast' = "CreateSessionDone"
    /\ UNCHANGED <<sessionCode, homeIsJoining, homeJoinPc, homeJoinCode, homeMounted>>
    /\ UNCHANGED sessionVars

\* the route change a router.push started replaces Home by the session screen, and
\* React drops Home's state; the handlers that are awaiting go on
HomeUnmount ==
    /\ homeMounted
    /\ pushed # <<>>
    /\ homeMounted' = FALSE
    /\ sessionCode' = <<>>
    /\ homeIsJoining' = FALSE
    /\ isCreating' = FALSE
    /\ homeLast' = "HomeUnmount"
    /\ UNCHANGED <<homeJoinPc, homeJoinCode, createPc, pushed>>
    /\ UNCHANGED sessionVars

HomeInit ==
    /\ sessionCode = <<>>
    /\ homeIsJoining = FALSE
    /\ isCreating = FALSE
    /\ homeJoinPc = "idle"
    /\ homeJoinCode = <<>>
    /\ createPc = "idle"
    /\ pushed = <<>>
    /\ homeMounted = TRUE
    /\ homeLast = "mount"

HomeNext ==
    \/ \E value \in CodeInputs : SetSessionCode(value)
    \/ HomeJoinSubmit
    \/ HomeJoinNavigate
    \/ CreateSessionClick
    \/ \E answer \in CreateAnswers, randomCode \in LocalCodes :
          CreateSessionDone(answer, randomCode)
    \/ HomeUnmount

-----------------------------------------------------------------------------
(* BattleSession: the session screen, in its four versions                  *)
(*   "part_001"  live: roster and transitions from the WebSocket            *)
(*   "part_002"  WebSocket events, mock roster, countdown timers            *)
(*   "page"      frontend/app/battle/[...sessionId]/page.tsx: mock, timers  *)
(*   "part_000"  join and lobby only                                        *)

Variants == {"part_001", "part_002", "page", "part_000"}
SocketVariants == {"part_001", "part_002"}
TimerVariants == {"part_002", "page"}

GameStates == {"join", "lobby", "prompt", "waiting", "battle", "results"}

\* useState(5) and useState(3)
InitialBattleStartTimer == 5
InitialWaitingTimer == 3

\* the session id of the URL, and the user id useState(() => `user_...`) made
sessionId == <<"S", "1">>
userId == <<"u", "0">>
\* Date.now().toString(), the id page.tsx and part_000 give the local player
NowId == <<"1", "7">>

\* what the user types into the name and the prompt inputs
NameInputs == { <<" ">>, <<" ", "a", " ">> }
PromptInputs == { <<" ">>, <<"k", " ">> }

\* user ids and names in server events
OtherUser == <<"u", "9">>
EventUserIds == { userId, OtherUser }
EventNames == { <<"B", "o">>, Undefined }

NoNav == <<"#none">>
Null == <<"#null">>
PlaceholderImage == <<"data:image/svg+xml">>
\* URL.createObjectURL(blob), and `data:image/png;base64,${data.image_base64}`
BlobUrl == <<"blob:">>
Base64Url(b) == <<"data:image/png;base64,">> \o TemplateString(b)

Participant(id, name) == [id |-> id, name |-> name]

\* JavaScript truthiness of a string or undefined
Truthy(v) == v # Undefined /\ v # <<>>

\* prev.filter((p) => p.id !== id)
RECURSIVE FilterOutId(_, _)
FilterOutId(list, id) ==
    IF list = <<>> THEN <<>>
    ELSE IF Head(list).id = id THEN FilterOutId(Tail(list), id)
    ELSE <<Head(list)>> \o FilterOutId(Tail(list), id)

\* prev.filter((x) => x !== id), on a list of ids
RECURSIVE FilterOut(_, _)
FilterOut(list, id) ==
    IF list = <<>> THEN <<>>
    ELSE IF Head(list) = id THEN FilterOut(Tail(list), id)
    ELSE <<Head(list)>> \o FilterOut(Tail(list), id)

HasId(list, id) == \E i \in 1..Len(list) : list[i].id = id

\* mutant: the new entry is appended without filtering the old one out
Upsert_NoFilter(list, p) == Append(list, p)

\* [...prev.filter((p) => p.id !== x.id), x]
Upsert(list, p) == Append(FilterOutId(list, p.id), p)

\* the mock participants of the lobby effect
MockParticipants4 ==
    << Participant(<<"1">>, <<"A", "l">>), Participant(<<"2">>, <<"M", "a">>),
       Participant(<<"3">>, <<"J", "o">>), Participant(<<"4">>, <<"S", "a">>) >>
MockParticipants2 ==
    << Participant(<<"1">>, <<"A", "l">>), Participant(<<"2">>, <<"M", "a">>) >>

\* the page has not been unloaded by an assignment to window.location
Alive == location = NoNav

\* mutant: the countdowns end one tick early
ExpiryPending_Early ==
    /\ mounted
    /\ variant \in TimerVariants
    /\ \/ gameState = "lobby" /\ battleStartTimer <= 1
       \/ gameState = "waiting" /\ waitingTimer <= 1

\* the else-if branch of a timer effect has a setGameState to run: the view was
\* rendered in the lobby with battleStartTimer 0, or waiting with waitingTimer 0
ExpiryPending ==
    /\ mounted
    /\ variant \in TimerVariants
    /\ \/ gameState = "lobby" /\ battleStartTimer = 0
       \/ gameState = "waiting" /\ waitingTimer = 0

\* the effects of the last render have run: React runs them before it handles the
\* next event, timeout or promise
Settled == Alive /\ ~ExpiryPending

(* Effects.  Each is given the dependencies of the previous render and the values of
   the render it follows, and runs only when a dependency changed. *)

\* mutant: part_002 shows the users of the events after the mock participants
ParticipantsEffect_ShowsReal(gsOld, cpOld, rpOld, gs, cp, rp, parts) ==
    CASE variant = "part_001" ->
           IF (gs # gsOld \/ cp # cpOld) /\ gs = "lobby" /\ cp # <<>>
           THEN Upsert(parts, cp[1]) ELSE parts
      [] variant = "part_002" ->
           IF (gs # gsOld \/ cp # cpOld \/ rp # rpOld) /\ gs = "lobby"
           THEN MockParticipants2 \o [i \in 1..Len(rp) |-> Participant(rp[i], rp[i])] \o cp
           ELSE parts
      [] OTHER ->
           IF (gs # gsOld \/ cp # cpOld) /\ gs = "lobby" /\ cp # <<>>
           THEN MockParticipants4 \o cp ELSE parts

\* the effect that fills the roster on entering the lobby
ParticipantsEffect(gsOld, cpOld, rpOld, gs, cp, rp, parts) ==
    CASE variant = "part_001" ->
           IF (gs # gsOld \/ cp # cpOld) /\ gs = "lobby" /\ cp # <<>>
           THEN Upsert(parts, cp[1]) ELSE parts
      [] variant = "part_002" ->
           IF (gs # gsOld \/ cp # cpOld \/ rp # rpOld) /\ gs = "lobby"
           THEN MockParticipants2 \o cp ELSE parts
      [] OTHER ->
           IF (gs # gsOld \/ cp # cpOld) /\ gs = "lobby" /\ cp # <<>>
           THEN MockParticipants4 \o cp ELSE parts

\* api.on(event, handler), in the listener effect
OnNames ==
    CASE variant = "part_001" ->
           { <<"round_start", "handleRoundStart">>,
             <<"all_characters_ready", "handleAllCharactersReady">>,
             <<"battle_start", "handleBattleStart">>,
             <<"results", "handleResults">>,
             <<"user_joined_session", "handleUserJoined">>,
             <<"user_left_session", "handleUserLeft">>,
             <<"session_participants", "handleParticipants">>,
             <<"error", "handleError">> }
      [] variant = "part_002" ->
           { <<"round_start", "handleRoundStart">>,
             <<"battle_start", "handleBattleStart">>,
             <<"results", "handleResults">>,
             <<"user_joined_session", "handleUserJoined">>,
             <<"user_left_session", "handleUserLeft">> }
      [] OTHER -> {}

\* mutant: the cleanup leaves the results handler registered
OffNames_KeepsResults ==
    CASE variant = "part_001" ->
           { <<"round_start", "handleRoundStart">>,
             <<"all_characters_ready", "handleAllCharactersReady">>,
             <<"battle_start", "handleBattleStart">>,
             <<"user_joined_session", "handleUserJoined">>,
             <<"user_left_session", "handleUserLeft">>,
             <<"session_participants", "handleParticipants">>,
             <<"error", "handleError">> }
      [] variant = "part_002" ->
           { <<"round_start", "handleRoundStart">>,
             <<"battle_start", "handleBattleStart">>,
             <<"user_joined_session", "handleUserJoined">>,
             <<"user_left_session", "handleUserLeft">> }
      [] OTHER -> {}

\* api.off(event, handler), in the listener effect's cleanup
OffNames ==
    CASE variant = "part_001" ->
           { <<"round_start", "handleRoundStart">>,
             <<"all_characters_ready", "handleAllCharactersReady">>,
             <<"battle_start", "handleBattleStart">>,
             <<"results", "handleResults">>,
             <<"user_joined_session", "handleUserJoined">>,
             <<"user_left_session", "handleUserLeft">>,
             <<"session_participants", "handleParticipants">>,
             <<"error", "handleError">> }
      [] variant = "part_002" ->
           { <<"round_start", "handleRoundStart">>,
             <<"battle_start", "handleBattleStart">>,
             <<"results", "handleResults">>,
             <<"user_joined_session", "handleUserJoined">>,
             <<"user_left_session", "handleUserLeft">> }
      [] OTHER -> {}

\* the handler functions one run of the listener effect makes: each is a closure
\* over the gameState of the render the effect ran for
Handlers(names, gs) ==
    { [event |-> n[1], handler |-> n[2], seen |-> gs] : n \in names }

\* the render whose listener effect ran last: deps [gameState] in part_001, [] in
\* part_002
ListenerSeen == IF variant = "part_001" THEN gameState ELSE "join"

\* mutant: the effect runs at mount only, its handlers keep the first gameState
ListenerEffect_MountOnly(subs, gsOld, gs) == subs

\* mutant: the effect has no cleanup, every run adds its handlers
ListenerEffect_NoCleanup(subs, gsOld, gs) ==
    IF variant = "part_001" /\ gs # gsOld
    THEN subs \cup Handlers(OnNames, gs)
    ELSE subs

\* the listener effect after a render: with deps [gameState] its cleanup and then
\* its body run when gameState changed
ListenerEffect(subs, gsOld, gs) ==
    IF variant = "part_001" /\ gs # gsOld
    THEN (subs \ Handlers(OffNames, gsOld)) \cup Handlers(OnNames, gs)
    ELSE subs

\* mutant: the effect has no cleanup, a timeout that was set stays set
TimeoutEffect_NoCleanup(pending, changed, gs, state, n) ==
    IF variant \notin TimerVariants THEN FALSE
    ELSE IF changed THEN pending \/ (gs = state /\ n > 0)
    ELSE pending

\* mutant: the effect never sets its timeout
TimeoutEffect_Never(pending, changed, gs, state, n) == FALSE

\* a timer effect's cleanup (clearTimeout) and its if branch (setTimeout): whether a
\* timeout is pending after the effect ran for `state` with counter `n`
TimeoutEffect(pending, changed, gs, state, n) ==
    IF variant \notin TimerVariants THEN FALSE
    ELSE IF changed THEN gs = state /\ n > 0
    ELSE pending

\* A render with the given new values of the state the effects read or write, and
\* the roster, listener and setTimeout effects that follow it.  btPending, wtPending: the
\* timeouts pending before it.
Commit(gs, cp, parts, bst, wt, rp, btPending, wtPending) ==
    /\ gameState' = gs
    /\ currentPlayer' = cp
    /\ participants' = ParticipantsEffect(gameState, currentPlayer, realParticipants,
                                          gs, cp, rp, parts)
    /\ battleStartTimer' = bst
    /\ waitingTimer' = wt
    /\ realParticipants' = rp
    /\ battleTimeout' = TimeoutEffect(btPending, gs # gameState \/ bst # battleStartTimer,
                                      gs, "lobby", bst)
    /\ waitingTimeout' = TimeoutEffect(wtPending, gs # gameState \/ wt # waitingTimer,
                                       gs, "waiting", wt)
    /\ subscribed' = ListenerEffect(subscribed, gameState, gs)

\* setGameState(gs) alone
SetGameState(gs) ==
    Commit(gs, currentPlayer, participants, battleStartTimer, waitingTimer,
           realParticipants, battleTimeout, waitingTimeout)

\* setParticipants(parts) alone
SetParticipants(parts) ==
    Commit(gameState, currentPlayer, parts, battleStartTimer, waitingTimer,
           realParticipants, battleTimeout, waitingTimeout)

commitVars == <<gameState, currentPlayer, participants, battleStartTimer, waitingTimer,
                realParticipants, battleTimeout, waitingTimeout, subscribed>>
joinVars == <<joinPc, jName, jConn>>
genVars == <<genPc, gConn>>

(* User input *)

\* onChange={(e) => setPlayerName(e.target.value)}, in the join view
SetPlayerName(value) ==
    /\ mounted /\ Settled
    /\ gameState = "join"
    /\ playerName' = value
    /\ emitted' = <<>>
    /\ UNCHANGED <<commitVars, joinVars, genVars, isJoining, prompt, isCreatingCharacter,
                   generatedImage, isStartingGame, battleResults, isConnected, connPc,
                   variant, mounted, location>>
    /\ UNCHANGED homeVars

\* onChange={(e) => setPrompt(e.target.value)}, in the prompt view
SetPrompt(value) ==
    /\ mounted /\ Settled
    /\ variant # "part_000"
    /\ gameState = "prompt"
    /\ prompt' = value
    /\ emitted' = <<>>
    /\ UNCHANGED <<commitVars, joinVars, genVars, isJoining, playerName,
                   isCreatingCharacter, generatedImage, isStartingGame, battleResults,
                   isConnected, connPc, variant, mounted, location>>
    /\ UNCHANGED homeVars

(* handleJoinSession *)

FetchOutcomes == {"ok", "notok", "throw"}

\* answers of POST /session/ to the session screen
SessionCreateAnswers ==
    { [kind |-> "throw"], [kind |-> "notok"], [kind |-> "badjson"] }
    \cup { [kind |-> "ok", session_id |-> id] : id \in ServerSessionIds \cup {sessionId} }

JoinSessionMsg(id) == [msg |-> "joinSession", id |-> id]
CharacterReadyMsg(id) == [msg |-> "characterReady", id |-> id]
StartRoundMsg(id) == [msg |-> "startRound", id |-> id]
\* api.disconnect()
DisconnectMsg == [msg |-> "disconnect", id |-> Null]

\* the first request handleJoinSession awaits
FirstJoinAwait == IF variant \in SocketVariants THEN "users" ELSE "sleep"

\* const newPlayer = { id, name: playerName.trim(), joinedAt }
NewPlayer(name) ==
    Participant(IF variant \in SocketVariants THEN userId ELSE NowId, Trim(name))

\* mutant: handleJoinSession has no early return
JoinRejects_Never(name) == FALSE

\* if (!playerName.trim()) return;
JoinRejects(name) == Trim(name) = <<>>

\* disabled={!playerName.trim() || isJoining}: the part that keeps a submit out
\* while one runs
JoinControlBusy == isJoining

\* handleJoinSession up to its first await: the join form's submit event.  The
\* button's busy test keeps a second submit out; the blank test is the handler's.
JoinSubmit ==
    /\ mounted /\ Settled
    /\ gameState = "join"
    /\ ~JoinControlBusy
    /\ IF JoinRejects(playerName)
       THEN UNCHANGED <<isJoining, joinVars>>
       ELSE /\ isJoining' = TRUE
            /\ joinPc' = FirstJoinAwait
            /\ jName' = playerName
            /\ jConn' = isConnected
    /\ emitted' = <<>>
    /\ UNCHANGED <<commitVars, genVars, playerName, prompt, isCreatingCharacter,
                   generatedImage, isStartingGame, battleResults, isConnected, connPc,
                   variant, mounted, location>>
    /\ UNCHANGED homeVars

\* an await of handleJoinSession is answered and the handler goes on to the next
JoinAwaitNext(pc) ==
    /\ joinPc' = pc
    /\ emitted' = <<>>
    /\ UNCHANGED <<commitVars, genVars, jName, jConn, isJoining, playerName, prompt,
                   isCreatingCharacter, generatedImage, isStartingGame, battleResults,
                   isConnected, connPc, variant, mounted, location>>
    /\ UNCHANGED homeVars

\* mutant: a view the server pushed in the meantime is kept
JoinTarget_KeepsPushed == IF gameState = "join" THEN "lobby" ELSE gameState

\* the view state handleJoinSession ends in
JoinTarget == "lobby"

\* the end of handleJoinSession on every path: setCurrentPlayer(newPlayer),
\* setGameState("lobby"), the messages and the redirect of the path, and
\* setIsJoining(false).  An unmounted component's setters do nothing.
JoinTail(emits, nav) ==
    /\ IF mounted
       THEN /\ Commit(JoinTarget, <<NewPlayer(jName)>>, participants, battleStartTimer,
                      waitingTimer, realParticipants, battleTimeout, waitingTimeout)
            /\ isJoining' = FALSE
       ELSE UNCHANGED <<commitVars, isJoining>>
    /\ joinPc' = "idle"
    /\ jName' = Null
    /\ jConn' = FALSE
    /\ emitted' = emits
    /\ location' = nav
    /\ UNCHANGED <<genVars, playerName, prompt, isCreatingCharacter, generatedImage,
                   isStartingGame, battleResults, isConnected, connPc, variant, mounted>>
    /\ UNCHANGED homeVars

\* mutant: the catch block only logs; the finally block runs
JoinFallback_LogOnly ==
    /\ IF mounted THEN isJoining' = FALSE ELSE UNCHANGED isJoining
    /\ joinPc' = "idle"
    /\ jName' = Null
    /\ jConn' = FALSE
    /\ emitted' = <<>>
    /\ UNCHANGED <<commitVars, genVars, playerName, prompt, isCreatingCharacter,
                   generatedImage, isStartingGame, battleResults, isConnected, connPc,
                   variant, mounted, location>>
    /\ UNCHANGED homeVars

\* the catch block: the local player and the lobby, nothing sent
JoinFallback == JoinTail(<<>>, NoNav)

\* if (isConnected) api.joinSession(id), with the isConnected of the submitting render
JoinEmit(id) == IF jConn THEN <<JoinSessionMsg(id)>> ELSE <<>>

\* mutant: no redirect, joinSession is sent for the new session
JoinSucceed001_NoRedirect(activeSessionId) ==
    JoinTail(JoinEmit(activeSessionId), NoNav)

\* part_001, after activeSessionId is known: redirect when it is not the URL's
JoinSucceed001(activeSessionId) ==
    IF activeSessionId # sessionId
    THEN JoinTail(<<>>, BattlePath(activeSessionId))
    ELSE JoinTail(JoinEmit(activeSessionId), NoNav)

\* POST /users/ is answered (its status is not read)
JoinUsersDone(outcome) ==
    /\ Settled
    /\ joinPc = "users"
    /\ IF outcome = "throw"
       THEN JoinFallback
       ELSE JoinAwaitNext(IF variant = "part_001" THEN "join" ELSE "put")

\* part_001: POST /session/join/{id} is answered
JoinJoinDone(outcome) ==
    /\ Settled
    /\ joinPc = "join"
    /\ CASE outcome = "throw" -> JoinFallback
         [] outcome = "notok" -> JoinAwaitNext("create")
         [] OTHER -> JoinSucceed001(sessionId)

\* part_001: POST /session/ is answered, and its body read
JoinCreateDone(answer) ==
    /\ Settled
    /\ joinPc = "create"
    /\ IF answer.kind = "ok" /\ Truthy(answer.session_id)
       THEN JoinSucceed001(answer.session_id)
       ELSE JoinFallback

\* part_002: PUT /session/{id} is answered
JoinPutDone(outcome) ==
    /\ Settled
    /\ joinPc = "put"
    /\ CASE outcome = "throw" -> JoinAwaitNext("post")
         [] outcome = "notok" -> JoinFallback
         [] OTHER -> JoinTail(JoinEmit(sessionId), NoNav)

\* part_002: POST /session/ is answered
JoinPostDone(outcome) ==
    /\ Settled
    /\ joinPc = "post"
    /\ IF outcome = "ok" THEN JoinTail(JoinEmit(sessionId), NoNav) ELSE JoinFallback

\* page.tsx, part_000: the simulated call of 1000 ms is over
JoinSleepDone ==
    /\ Settled
    /\ joinPc = "sleep"
    /\ JoinTail(<<>>, NoNav)

(* handleCreateCharacter *)

\* answers of POST /generate/: the fetch throws, a non-ok status, ok with a body
\* that cannot be read, ok with a body
GenAnswers ==
    { [kind |-> "throw"], [kind |-> "notok"], [kind |-> "badbody"] }
    \cup { [kind |-> "ok", image_base64 |-> b] : b \in { <<"i", "V">>, Undefined } }

\* if (!prompt.trim()) return;
GenRejects(p) == Trim(p) = <<>>

\* mutant: the controls stay available while a request runs
GenControlsBusy_Never == FALSE

\* disabled={!prompt.trim() || isCreatingCharacter} of the submit button, and
\* {generatedImage && !isCreatingCharacter && ...} around Regenerate: the part
\* that keeps a submit out while one runs
GenControlsBusy == isCreatingCharacter

\* handleCreateCharacter up to its await: the prompt form's submit event or the
\* Regenerate button, both out of reach while isCreatingCharacter
GenSubmit ==
    /\ mounted /\ Settled
    /\ variant # "part_000"
    /\ gameState = "prompt"
    /\ ~GenControlsBusy
    /\ IF GenRejects(prompt)
       THEN UNCHANGED <<isCreatingCharacter, genVars>>
       ELSE /\ isCreatingCharacter' = TRUE
            /\ genPc' = IF variant = "page" THEN "sleep" ELSE "fetch"
            /\ gConn' = isConnected
    /\ emitted' = <<>>
    /\ UNCHANGED <<commitVars, joinVars, isJoining, playerName, prompt, generatedImage,
                   isStartingGame, battleResults, isConnected, connPc, variant, mounted,
                   location>>
    /\ UNCHANGED homeVars

\* mutant: a failed request stores no image
GeneratedImageFor_NoFallback(answer) ==
    IF answer.kind = "ok"
    THEN IF variant = "part_001" THEN BlobUrl ELSE Base64Url(answer.image_base64)
    ELSE Null

\* the image handleCreateCharacter stores for an answer
GeneratedImageFor(answer) ==
    IF answer.kind = "ok"
    THEN IF variant = "part_001" THEN BlobUrl ELSE Base64Url(answer.image_base64)
    ELSE PlaceholderImage

\* the view state handleCreateCharacter ends in
GenTarget == "waiting"

\* part_001: if (isConnected) api.characterReady(sessionId), in the try and in the catch
GenEmit ==
    IF variant = "part_001" /\ gConn THEN <<CharacterReadyMsg(sessionId)>> ELSE <<>>

\* the end of handleCreateCharacter on every path
GenTail(image, emits) ==
    /\ IF mounted
       THEN /\ generatedImage' = image
            /\ Commit(GenTarget, currentPlayer, participants, battleStartTimer,
                      waitingTimer, realParticipants, battleTimeout, waitingTimeout)
            /\ isCreatingCharacter' = FALSE
       ELSE UNCHANGED <<commitVars, generatedImage, isCreatingCharacter>>
    /\ genPc' = "idle"
    /\ gConn' = FALSE
    /\ emitted' = emits
    /\ UNCHANGED <<joinVars, isJoining, playerName, prompt, isStartingGame, battleResults,
                   isConnected, connPc, variant, mounted, location>>
    /\ UNCHANGED homeVars

\* mutant: the catch block does not notify the backend
GenDone_SilentFallback(answer) ==
    /\ Settled
    /\ genPc = "fetch"
    /\ GenTail(GeneratedImageFor(answer), IF answer.kind = "ok" THEN GenEmit ELSE <<>>)

\* part_001, part_002: POST /generate/ is answered, and its body read
GenDone(answer) ==
    /\ Settled
    /\ genPc = "fetch"
    /\ GenTail(GeneratedImageFor(answer), GenEmit)

\* page.tsx: the simulated call of 2000 ms is over
GenSleepDone ==
    /\ Settled
    /\ genPc = "sleep"
    /\ GenTail(PlaceholderImage, <<>>)

(* The WebSocket: api.connect and the handlers of the server's events *)

\* mutant: the effect's mounted flag is not read before joinSession is sent
ConnectResolve_NoFlag ==
    /\ Settled
    /\ variant \in SocketVariants
    /\ connPc = "pending"
    /\ connPc' = "resolved"
    /\ emitted' = IF Truthy(sessionId) THEN <<JoinSessionMsg(sessionId)>> ELSE <<>>
    /\ IF mounted THEN isConnected' = TRUE ELSE UNCHANGED isConnected
    /\ UNCHANGED <<commitVars, joinVars, genVars, isJoining, playerName, prompt,
                   isCreatingCharacter, generatedImage, isStartingGame, battleResults,
                   variant, mounted, location>>
    /\ UNCHANGED homeVars

\* await api.connect(userId) resolves: if (mounted) { setIsConnected(true);
\* if (sessionId) api.joinSession(sessionId); }
ConnectResolve ==
    /\ Settled
    /\ variant \in SocketVariants
    /\ connPc = "pending"
    /\ connPc' = "resolved"
    /\ IF mounted
       THEN /\ isConnected' = TRUE
            /\ emitted' = IF Truthy(sessionId) THEN <<JoinSessionMsg(sessionId)>> ELSE <<>>
       ELSE /\ emitted' = <<>>
            /\ UNCHANGED isConnected
    /\ UNCHANGED <<commitVars, joinVars, genVars, isJoining, playerName, prompt,
                   isCreatingCharacter, generatedImage, isStartingGame, battleResults,
                   variant, mounted, location>>
    /\ UNCHANGED homeVars

\* await api.connect(userId) rejects: the catch logs
ConnectReject ==
    /\ Settled
    /\ variant \in SocketVariants
    /\ connPc = "pending"
    /\ connPc' = "rejected"
    /\ emitted' = <<>>
    /\ UNCHANGED <<commitVars, joinVars, genVars, isJoining, playerName, prompt,
                   isCreatingCharacter, generatedImage, isStartingGame, battleResults,
                   isConnected, variant, mounted, location>>
    /\ UNCHANGED homeVars

\* an event of the server reaches the handlers registered for it, over an open
\* socket
Listening(event) ==
    /\ Settled
    /\ connPc = "resolved"
    /\ \E h \in subscribed : h.event = event

\* the gameState the registered handler of an event closes over
SeenBy(event) == (CHOOSE h \in subscribed : h.event = event).seen

\* what an event handler that only calls setGameState leaves alone
EventFrame ==
    /\ emitted' = <<>>
    /\ UNCHANGED <<joinVars, genVars, isJoining, playerName, prompt, isCreatingCharacter,
                   generatedImage, isStartingGame, isConnected, connPc, variant, mounted,
                   location>>
    /\ UNCHANGED homeVars

\* handleRoundStart
OnRoundStart ==
    /\ Listening("round_start")
    /\ SetGameState("prompt")
    /\ UNCHANGED battleResults
    /\ EventFrame

\* handleAllCharactersReady (part_001): if (gameState === "waiting") setGameState("battle")
OnAllCharactersReady ==
    /\ Listening("all_characters_ready")
    /\ IF SeenBy("all_characters_ready") = "waiting"
       THEN SetGameState("battle") ELSE UNCHANGED commitVars
    /\ UNCHANGED battleResults
    /\ EventFrame

\* handleBattleStart
OnBattleStart ==
    /\ Listening("battle_start")
    /\ SetGameState("battle")
    /\ UNCHANGED battleResults
    /\ EventFrame

\* the payloads of the results event: the local user wins, the other user wins,
\* the user with the id of the first mock participant wins
ResultsData ==
    { [winner_user_id |-> userId, battle_script |-> <<"s">>, battle_summary |-> <<"x", " ">>],
      [winner_user_id |-> OtherUser, battle_script |-> <<>>, battle_summary |-> <<"y">>],
      [winner_user_id |-> <<"1">>, battle_script |-> <<>>, battle_summary |-> <<"y">>] }

\* mutant: the summary is filled from the script
ResultsOf_ScriptAsSummary(data) ==
    [winner_user_id |-> data.winner_user_id,
     battle_script |-> data.battle_script,
     battle_summary |-> data.battle_script]

\* setBattleResults({ winner_user_id, battle_script, battle_summary })
ResultsOf(data) ==
    [winner_user_id |-> data.winner_user_id,
     battle_script |-> data.battle_script,
     battle_summary |-> data.battle_summary]

\* the view state handleResults sets
ResultsTarget == "results"

\* mutant: the handler sets the view and does not store the payload
OnResults_NoStore(data) ==
    /\ Listening("results")
    /\ UNCHANGED battleResults
    /\ SetGameState(ResultsTarget)
    /\ EventFrame

\* handleResults
OnResults(data) ==
    /\ Listening("results")
    /\ battleResults' = <<ResultsOf(data)>>
    /\ SetGameState(ResultsTarget)
    /\ EventFrame

\* the payloads of user_joined_session and user_left_session
UserEvents == { [user_id |-> u, name |-> n] : u \in EventUserIds, n \in EventNames }

\* the participants field of session_participants (Undefined: not an array)
ParticipantLists ==
    { Undefined, <<OtherUser>>, <<userId, OtherUser>>, <<OtherUser, OtherUser>> }

\* handleUserJoined: the roster (part_001) after the event
JoinedRoster(list, data) ==
    IF Truthy(data.user_id) /\ Truthy(data.name)
    THEN Upsert(list, Participant(data.user_id, data.name))
    ELSE list

\* handleUserJoined (part_002): realParticipants after the event
JoinedIds(ids, data) == Append(FilterOut(ids, data.user_id), data.user_id)

\* Map.prototype.set on a map kept as the list of its values in insertion order
MapSet(list, p) ==
    IF HasId(list, p.id)
    THEN [i \in 1..Len(list) |-> IF list[i].id = p.id THEN p ELSE list[i]]
    ELSE Append(list, p)

\* new Map(prev.map((p) => [p.id, p]))
RECURSIVE MapOf(_)
MapOf(list) ==
    IF list = <<>> THEN <<>>
    ELSE MapSet(MapOf(SubSeq(list, 1, Len(list) - 1)), list[Len(list)])

\* data.participants.forEach((id) => { if (!map.has(id)) map.set(id, {id, name: id}) })
RECURSIVE AddMissing(_, _)
AddMissing(map, ids) ==
    IF ids = <<>> THEN map
    ELSE AddMissing(IF HasId(map, Head(ids)) THEN map
                    ELSE MapSet(map, Participant(Head(ids), Head(ids))),
                    Tail(ids))

\* mutant: the roster is replaced by the listed ids
ParticipantsRoster_Replace(list, ids) ==
    IF ids = Undefined THEN list ELSE AddMissing(<<>>, ids)

\* handleParticipants: the roster after the event
ParticipantsRoster(list, ids) ==
    IF ids = Undefined THEN list ELSE AddMissing(MapOf(list), ids)

\* handleUserJoined
OnUserJoined(data) ==
    /\ Listening("user_joined_session")
    /\ IF variant = "part_001"
       THEN SetParticipants(JoinedRoster(participants, data))
       ELSE Commit(gameState, currentPlayer, participants, battleStartTimer, waitingTimer,
                   JoinedIds(realParticipants, data), battleTimeout, waitingTimeout)
    /\ UNCHANGED battleResults
    /\ EventFrame

\* handleUserLeft
OnUserLeft(data) ==
    /\ Listening("user_left_session")
    /\ IF variant = "part_001"
       THEN SetParticipants(FilterOutId(participants, data.user_id))
       ELSE Commit(gameState, currentPlayer, participants, battleStartTimer, waitingTimer,
                   FilterOut(realParticipants, data.user_id), battleTimeout, waitingTimeout)
    /\ UNCHANGED battleResults
    /\ EventFrame

\* handleParticipants (part_001)
OnParticipants(ids) ==
    /\ Listening("session_participants")
    /\ SetParticipants(ParticipantsRoster(participants, ids))
    /\ UNCHANGED battleResults
    /\ EventFrame

\* handleError (part_001): console.error
OnError ==
    /\ Listening("error")
    /\ UNCHANGED <<commitVars, battleResults>>
    /\ EventFrame

(* The lobby's Start Game button (part_001), Play Again, the timers, unmount *)

\* mutant: handleStartGame has no early return
StartRejects_Never(list) == FALSE

\* if (!sessionId || participants.length < 2) return;
StartRejects(list) == ~Truthy(sessionId) \/ Len(list) < 2

\* handleStartGame: setIsStartingGame(true); api.startRound(sessionId);
\* setIsStartingGame(false), in one synchronous run
StartGame ==
    /\ mounted /\ Settled
    /\ variant = "part_001"
    /\ gameState = "lobby"
    /\ ~isStartingGame
    /\ emitted' = IF StartRejects(participants) THEN <<>> ELSE <<StartRoundMsg(sessionId)>>
    /\ isStartingGame' = FALSE
    /\ UNCHANGED <<commitVars, joinVars, genVars, isJoining, playerName, prompt,
                   isCreatingCharacter, generatedImage, battleResults, isConnected,
                   connPc, variant, mounted, location>>
    /\ UNCHANGED homeVars

\* which view the component returns ("none": return null)
View ==
    CASE gameState \in {"join", "lobby"} -> gameState
      [] variant = "part_000" -> "none"
      [] gameState \in {"prompt", "waiting", "battle"} -> gameState
      [] variant \in SocketVariants /\ battleResults # <<>> -> "results"
      [] OTHER -> "none"

\* what JSX shows for {value}: a string as it is, nothing for undefined
JsxText(v) == IF v = Undefined THEN <<>> ELSE v

\* {battleResults.battle_summary} of the results view
RenderedSummary ==
    IF View = "results" THEN JsxText(battleResults[1].battle_summary) ELSE Null

\* participants.find((p) => p.id === id)?.name
RECURSIVE FindName(_, _)
FindName(list, id) ==
    IF list = <<>> THEN Undefined
    ELSE IF Head(list).id = id THEN Head(list).name
    ELSE FindName(Tail(list), id)

\* the heading of the results view
ResultsHeading ==
    IF View # "results" THEN Null
    ELSE IF battleResults[1].winner_user_id = userId THEN <<"Victory!">>
    ELSE <<"Good Fight!">>

\* the name after "Winner: " in the results view: part_001 looks the winner up
\* in the roster, part_002 shows winner_user_id
WinnerShown ==
    IF View # "results" \/ battleResults[1].winner_user_id = userId THEN Null
    ELSE IF variant = "part_001"
         THEN LET name == FindName(participants, battleResults[1].winner_user_id)
              IN  IF Truthy(name) THEN name
                  ELSE TemplateString(battleResults[1].winner_user_id)
         ELSE TemplateString(battleResults[1].winner_user_id)

\* Play Again: window.location.href = "/"
PlayAgain ==
    /\ mounted /\ Settled
    /\ View = "results"
    /\ location' = <<"/">>
    /\ emitted' = <<>>
    /\ UNCHANGED <<commitVars, joinVars, genVars, isJoining, playerName, prompt,
                   isCreatingCharacter, generatedImage, isStartingGame, battleResults,
                   isConnected, connPc, variant, mounted>>
    /\ UNCHANGED homeVars

\* what a timeout callback leaves alone
TickFrame ==
    /\ emitted' = <<>>
    /\ UNCHANGED <<joinVars, genVars, isJoining, playerName, prompt, isCreatingCharacter,
                   generatedImage, isStartingGame, battleResults, isConnected, connPc,
                   variant, mounted, location>>
    /\ UNCHANGED homeVars

\* mutant: the updater counts up
Countdown_Up(prev) == prev + 1

\* (prev) => prev - 1, the updater both timeout callbacks pass to their setter
Countdown(prev) == prev - 1

\* the battle start effect's timeout fires: setBattleStartTimer((prev) => prev - 1)
TickBattleStart ==
    /\ mounted /\ Settled
    /\ battleTimeout
    /\ Commit(gameState, currentPlayer, participants, Countdown(battleStartTimer), waitingTimer,
              realParticipants, FALSE, waitingTimeout)
    /\ TickFrame

\* the waiting effect's timeout fires: setWaitingTimer((prev) => prev - 1)
TickWaiting ==
    /\ mounted /\ Settled
    /\ waitingTimeout
    /\ Commit(gameState, currentPlayer, participants, battleStartTimer, Countdown(waitingTimer),
              realParticipants, battleTimeout, FALSE)
    /\ TickFrame

\* the battle start effect's else-if branch: setGameState("prompt")
BattleStartExpire ==
    /\ Alive /\ ExpiryPending
    /\ gameState = "lobby"
    /\ SetGameState("prompt")
    /\ TickFrame

\* the waiting effect's else-if branch: setGameState("battle")
WaitingExpire ==
    /\ Alive /\ ExpiryPending
    /\ gameState = "waiting"
    /\ SetGameState("battle")
    /\ TickFrame

\* the state of a component that is not mounted: React has dropped it
NoView ==
    /\ gameState' = "join"
    /\ playerName' = <<>>
    /\ currentPlayer' = <<>>
    /\ participants' = <<>>
    /\ isJoining' = FALSE
    /\ prompt' = <<>>
    /\ isCreatingCharacter' = FALSE
    /\ generatedImage' = Null
    /\ isStartingGame' = FALSE
    /\ battleResults' = <<>>
    /\ isConnected' = FALSE
    /\ battleStartTimer' = InitialBattleStartTimer
    /\ waitingTimer' = InitialWaitingTimer
    /\ realParticipants' = <<>>

\* the component unmounts: every effect's cleanup runs (clearTimeout, api.off of
\* the last listener effect, mounted = false, api.disconnect) and its state is dropped; the handlers that
\* are awaiting go on
Unmount ==
    /\ mounted /\ Settled
    /\ mounted' = FALSE
    /\ battleTimeout' = FALSE
    /\ waitingTimeout' = FALSE
    /\ NoView
    /\ subscribed' = subscribed \ Handlers(OffNames, ListenerSeen)
    /\ emitted' = IF variant \in SocketVariants THEN <<DisconnectMsg>> ELSE <<>>
    /\ UNCHANGED <<joinVars, genVars, connPc, variant, location>>
    /\ UNCHANGED homeVars

SessionInit ==
    /\ variant \in Variants
    /\ mounted = TRUE
    /\ location = NoNav
    /\ gameState = "join"
    /\ playerName = <<>>
    /\ currentPlayer = <<>>
    /\ participants = <<>>
    /\ isJoining = FALSE
    /\ prompt = <<>>
    /\ isCreatingCharacter = FALSE
    /\ generatedImage = Null
    /\ isStartingGame = FALSE
    /\ battleResults = <<>>
    /\ isConnected = FALSE
    /\ battleStartTimer = InitialBattleStartTimer
    /\ waitingTimer = InitialWaitingTimer
    /\ realParticipants = <<>>
    /\ battleTimeout = FALSE
    /\ waitingTimeout = FALSE
    /\ connPc = IF variant \in SocketVariants THEN "pending" ELSE "none"
    /\ joinPc = "idle"
    /\ jName = Null
    /\ jConn = FALSE
    /\ genPc = "idle"
    /\ gConn = FALSE
    /\ subscribed = Handlers(OnNames, "join")
    /\ emitted = <<>>

Init == HomeInit /\ SessionInit

Next ==
    \/ \E value \in NameInputs : SetPlayerName(value)
    \/ \E value \in PromptInputs : SetPrompt(value)
    \/ JoinSubmit
    \/ \E outcome \in {"resolved", "throw"} : JoinUsersDone(outcome)
    \/ \E outcome \in FetchOutcomes : JoinJoinDone(outcome)
    \/ \E answer \in SessionCreateAnswers : JoinCreateDone(answer)
    \/ \E outcome \in FetchOutcomes : JoinPutDone(outcome)
    \/ \E outcome \in FetchOutcomes : JoinPostDone(outcome)
    \/ JoinSleepDone
    \/ GenSubmit
    \/ \E answer \in GenAnswers : GenDone(answer)
    \/ GenSleepDone
    \/ ConnectResolve
    \/ ConnectReject
    \/ OnRoundStart
    \/ OnAllCharactersReady
    \/ OnBattleStart
    \/ \E data \in ResultsData : OnResults(data)
    \/ \E data \in UserEvents : OnUserJoined(data)
    \/ \E data \in UserEvents : OnUserLeft(data)
    \/ \E ids \in ParticipantLists : OnParticipants(ids)
    \/ OnError
    \/ StartGame
    \/ PlayAgain
    \/ TickBattleStart
    \/ TickWaiting
    \/ BattleStartExpire
    \/ WaitingExpire
    \/ Unmount

\* the session screen, from its mount
Spec == Init /\ [][Next]_vars

\* The session screen with the backend out of reach: every fetch throws, api.connect
\* rejects or stays pending, no event arrives; the user stays on the screen.
NextOffline ==
    \/ \E value \in NameInputs : SetPlayerName(value)
    \/ \E value \in PromptInputs : SetPrompt(value)
    \/ JoinSubmit
    \/ JoinUsersDone("throw")
    \/ JoinSleepDone
    \/ GenSubmit
    \/ GenDone([kind |-> "throw"])
    \/ GenSleepDone
    \/ ConnectReject
    \/ StartGame
    \/ TickBattleStart
    \/ TickWaiting
    \/ BattleStartExpire
    \/ WaitingExpire

\* a failing fetch is answered, a timeout that is set fires, an effect runs; the
\* user types a non-blank name and a non-blank prompt and submits each when the
\* form takes it
FairOffline ==
    /\ WF_vars(JoinUsersDone("throw"))
    /\ WF_vars(JoinSleepDone)
    /\ WF_vars(GenDone([kind |-> "throw"]))
    /\ WF_vars(GenSleepDone)
    /\ WF_vars(TickBattleStart)
    /\ WF_vars(TickWaiting)
    /\ WF_vars(BattleStartExpire)
    /\ WF_vars(WaitingExpire)
    /\ WF_vars(SetPlayerName(<<" ", "a", " ">>))
    /\ WF_vars(SetPrompt(<<"k", " ">>))
    /\ SF_vars(JoinSubmit)
    /\ SF_vars(GenSubmit)

SpecOffline == Init /\ [][NextOffline]_vars /\ FairOffline

\* the landing screen, from its mount
InitHome == HomeInit /\ SessionInit /\ variant = "page"
SpecHome == InitHome /\ [][HomeNext]_vars

-----------------------------------------------------------------------------
(* Properties of the session screen *)

\* C1: in part_001 and part_002 a results event, in whatever view it arrives,
\* sets gameState to "results" and stores the payload's battle_summary unchanged
\* in battleResults, and the results view then shows that summary as its text.
C1_ResultsEvent ==
    [][\A data \in ResultsData :
          OnResults(data) =>
             /\ gameState' = "results"
             /\ battleResults' # <<>>
             /\ battleResults'[1].battle_summary = data.battle_summary
             /\ RenderedSummary' = data.battle_summary]_vars

\* a results event arrived before any name was submitted, and its summary, with
\* its trailing blank, is the text shown
C1_Witness ==
    /\ variant \in SocketVariants
    /\ mounted
    /\ gameState = "results"
    /\ currentPlayer = <<>>
    /\ joinPc = "idle"
    /\ RenderedSummary = <<"x", " ">>

UniqueIds(list) ==
    \A i, j \in 1..Len(list) : list[i].id = list[j].id => i = j

CountId(list, id) == Cardinality({ i \in 1..Len(list) : list[i].id = id })

\* C2: in part_001 the roster never holds two participants with the same id, and
\* a user_joined_session for an id already in the roster leaves exactly one entry
\* with that id.
C2_UniqueRoster ==
    /\ [](variant = "part_001" => UniqueIds(participants))
    /\ [][\A data \in UserEvents :
             (variant = "part_001" /\ OnUserJoined(data)
                 /\ HasId(participants, data.user_id))
             => CountId(participants', data.user_id) = 1]_vars

\* the local player joined, and a user_joined_session for the same id followed:
\* the entry carries the event's name, next to the other user's
C2_Witness ==
    /\ variant = "part_001"
    /\ gameState = "lobby"
    /\ currentPlayer # <<>>
    /\ Len(participants) = 2
    /\ participants[2] = Participant(userId, <<"B", "o">>)

\* C3: when the generate request of a submitted prompt fails (the fetch throws,
\* or the response is not ok), the view goes to "waiting" and generatedImage is
\* the placeholder image.
C3_GenerateFails ==
    [][\A answer \in GenAnswers :
          (mounted /\ answer.kind \in {"throw", "notok"} /\ GenDone(answer))
          => /\ gameState' = "waiting"
             /\ generatedImage' = PlaceholderImage
             /\ ~isCreatingCharacter']_vars

\* the request was made and answered, and the placeholder is shown in "waiting"
C3_Witness ==
    /\ variant \in SocketVariants
    /\ mounted
    /\ gameState = "waiting"
    /\ generatedImage = PlaceholderImage
    /\ genPc = "idle"
    /\ ~GenRejects(prompt)

\* the id handleJoinSession gives the local player
C4_LocalId == IF variant \in SocketVariants THEN <<"u", "0">> ELSE <<"1", "7">>

\* C4: a submitted non-blank name ends, on every path of handleJoinSession (the
\* calls succeed, answer an error status, or throw), with gameState "lobby",
\* currentPlayer the local player with the name trimmed and isJoining false; and
\* a mounted screen that has left "join" never shows it again.
C4_JoinEndsInLobby ==
    /\ [](joinPc # "idle" => Trim(jName) # <<>>)
    /\ [][(mounted /\ joinPc # "idle" /\ joinPc' = "idle")
          => /\ gameState' = "lobby"
             /\ currentPlayer' = <<[id |-> C4_LocalId, name |-> <<"a">>]>>
             /\ ~isJoining']_vars
    /\ [][(mounted' /\ gameState # "join") => gameState' # "join"]_vars

\* the join ended in the lobby with the name trimmed, after the connection failed
C4_Witness ==
    /\ variant \in SocketVariants
    /\ mounted
    /\ connPc = "rejected"
    /\ gameState = "lobby"
    /\ playerName = <<" ", "a", " ">>
    /\ currentPlayer = <<[id |-> <<"u", "0">>, name |-> <<"a">>]>>
    /\ ~isJoining
    /\ joinPc = "idle"

C6_ResultsTerminal ==
    [][(mounted /\ mounted' /\ gameState = "results") => gameState' = "results"]_vars

\* the order of the view states
C7_Successor ==
    { <<"join", "lobby">>, <<"lobby", "prompt">>, <<"prompt", "waiting">>,
      <<"waiting", "battle">>, <<"battle", "results">> }

\* C7 as claimed: every change of gameState of a mounted screen goes from a state
\* to its immediate successor in join, lobby, prompt, waiting, battle, results.
C7_InOrder ==
    [][(mounted /\ mounted' /\ gameState' # gameState)
          => <<gameState, gameState'>> \in C7_Successor]_vars

-----------------------------------------------------------------------------
(* Properties of the landing screen *)

C8_Prefix == <<"/", "b", "a", "t", "t", "l", "e", "/">>

\* the upper-case form of the characters a session code is typed in
C8_Upper(c) ==
    CASE c \in {"a", "A"} -> "A"
      [] c \in {"b", "B"} -> "B"
      [] c \in {"x", "X"} -> "X"
      [] OTHER -> c

\* C8: the navigation of a submitted 6-character code is one router.push of
\* "/battle/" followed by the 6 characters of the code in upper case; the code
\* the handler holds is the upper-case form of what the field reported.
C8_JoinNavigates ==
    /\ [][\A value \in CodeInputs :
             SetSessionCode(value)
             => /\ Len(sessionCode') = Len(value)
                /\ \A i \in 1..Len(value) : sessionCode'[i] = C8_Upper(value[i])]_vars
    /\ [][(homeJoinPc = "sleep" /\ homeJoinPc' = "idle")
             => /\ Len(homeJoinCode) = 6
                /\ Len(pushed') = Len(pushed) + 1
                /\ SubSeq(pushed', 1, Len(pushed)) = pushed
                /\ LET path == pushed'[Len(pushed')]
                   IN  /\ Len(path) = 14
                       /\ SubSeq(path, 1, 8) = C8_Prefix
                       /\ \A i \in 1..6 : path[8 + i] = C8_Upper(homeJoinCode[i])]_vars

\* the code typed as aB123x was submitted and /battle/AB123X pushed, nothing else
C8_Witness ==
    /\ homeLast = "HomeJoinNavigate"
    /\ pushed = << C8_Prefix \o <<"A", "B", "1", "2", "3", "X">> >>

\* C9: a session code whose length is not 6 is rejected: the Join button is
\* disabled, a submit with such a code changes nothing (no navigation is started
\* and isJoining stays false), and no running handleJoinSession holds such a code.
C9_RejectsOtherLengths ==
    /\ []((homeMounted /\ Len(sessionCode) # 6) => JoinButtonDisabled)
    /\ [](homeJoinPc = "sleep" => Len(homeJoinCode) = 6)
    /\ [][(HomeJoinSubmit /\ Len(sessionCode) # 6)
             => /\ ~homeIsJoining'
                /\ UNCHANGED <<pushed, homeJoinPc, homeJoinCode, sessionCode>>]_vars

\* the form was submitted with a code of 5 characters: nothing pushed, not joining
C9_Witness ==
    /\ homeLast = "HomeJoinSubmit"
    /\ Len(sessionCode) = 5
    /\ ~homeIsJoining
    /\ homeJoinPc = "idle"
    /\ pushed = <<>>

\* what `/battle/${id}` is for an id the backend answered
C10_Path(id) ==
    C8_Prefix \o (IF id = Undefined
                  THEN <<"u", "n", "d", "e", "f", "i", "n", "e", "d">> ELSE id)

\* C10: a click on Create New Battle ends in exactly one router.push: of
\* "/battle/" and the session id of the answer when POST /session/ answers ok,
\* and of "/battle/" and the locally generated code when the fetch throws, the
\* status is not ok or the body does not parse; isCreating is false after it, and
\* the click itself pushes nothing.
C10_CreateNavigatesOnce ==
    /\ [][\A answer \in CreateAnswers, randomCode \in LocalCodes :
             CreateSessionDone(answer, randomCode)
             => /\ pushed' = Append(pushed,
                                    IF answer.kind = "ok"
                                    THEN C10_Path(answer.session_id)
                                    ELSE C8_Prefix \o randomCode)
                /\ ~isCreating'
                /\ createPc' = "idle"]_vars
    /\ [][CreateSessionClick => (pushed' = pushed /\ createPc = "idle")]_vars

\* one click, answered ok: the one push is of the backend's session id
C10_Witness ==
    /\ homeLast = "CreateSessionDone"
    /\ homeMounted
    /\ ~isCreating
    /\ pushed = << C8_Prefix \o <<"S", "R", "V", "0", "0", "1">> >>

-----------------------------------------------------------------------------
(* Properties of the countdowns, the listeners and the requests *)

\* C11: in the versions with timers (page.tsx, part_002) the view enters "lobby"
\* with battleStartTimer 5 and a timeout set; battleStartTimer changes only by a
\* tick of 1 in the lobby; the view goes from "lobby" to "prompt" only when
\* battleStartTimer is 0, or on a round_start event, which takes it there at once
\* whatever the countdown shows; and at 0 the next thing that happens is the move
\* to "prompt".
C11_LobbyCountdown ==
    /\ [][(variant \in TimerVariants /\ mounted' /\ gameState # "lobby"
             /\ gameState' = "lobby")
          => (battleStartTimer' = 5 /\ battleTimeout')]_vars
    /\ [][(mounted' /\ battleStartTimer' # battleStartTimer)
          => /\ gameState = "lobby" /\ gameState' = "lobby"
             /\ battleStartTimer' = battleStartTimer - 1
             /\ battleStartTimer' >= 0]_vars
    /\ [][(variant \in TimerVariants /\ mounted' /\ gameState = "lobby"
             /\ gameState' = "prompt")
          => (battleStartTimer = 0 \/ OnRoundStart)]_vars
    /\ [][(OnRoundStart /\ gameState = "lobby") => gameState' = "prompt"]_vars
    /\ []((variant \in TimerVariants /\ mounted /\ gameState = "lobby"
             /\ battleStartTimer > 0) => battleTimeout)
    /\ [][(variant \in TimerVariants /\ mounted /\ location = <<"#none">>
             /\ gameState = "lobby" /\ battleStartTimer = 0)
          => gameState' = "prompt"]_vars

\* part_002 counted the lobby down to 0 and showed the prompt view
C11_Witness ==
    /\ variant = "part_002"
    /\ mounted
    /\ gameState = "prompt"
    /\ currentPlayer # <<>>
    /\ battleStartTimer = 0
    /\ waitingTimer = 3

\* C12 as claimed: in the versions with timers the view enters "waiting", every
\* time it does, with waitingTimer 3 and a timeout set, so that without a push it
\* goes to "battle" after 3 ticks; and it goes from "waiting" to "battle" only on a
\* battle_start or all_characters_ready event or when waitingTimer is 0.
C12_WaitingToBattle ==
    /\ [][(variant \in TimerVariants /\ mounted' /\ gameState # "waiting"
             /\ gameState' = "waiting")
          => (waitingTimer' = 3 /\ waitingTimeout')]_vars
    /\ [][(mounted' /\ gameState = "waiting" /\ gameState' = "battle")
          => \/ OnBattleStart
             \/ OnAllCharactersReady
             \/ (variant \in TimerVariants /\ waitingTimer = 0)]_vars

\* C13: a timeout of a countdown is pending only while the screen is mounted in
\* the countdown's view with the counter above 0 (a change of gameState and the
\* unmount clear it), so battleStartTimer is decremented only in "lobby" and
\* waitingTimer only in "waiting".
C13_TimeoutsCleared ==
    /\ [](battleTimeout => (mounted /\ gameState = "lobby" /\ battleStartTimer > 0))
    /\ [](waitingTimeout => (mounted /\ gameState = "waiting" /\ waitingTimer > 0))
    /\ [][battleStartTimer' < battleStartTimer => gameState = "lobby"]_vars
    /\ [][waitingTimer' < waitingTimer => gameState = "waiting"]_vars
    /\ [][(gameState' # gameState \/ ~mounted')
          => /\ battleTimeout' => gameState' = "lobby"
             /\ waitingTimeout' => gameState' = "waiting"]_vars

\* a round_start took part_002 out of the lobby in the middle of the countdown:
\* the counter stopped at 3 and no timeout is left
C13_Witness ==
    /\ variant = "part_002"
    /\ mounted
    /\ gameState = "prompt"
    /\ battleStartTimer = 3
    /\ ~battleTimeout
    /\ ~waitingTimeout

\* the step is the run of a handler of a server event
C14_HandlerRuns ==
    \/ OnRoundStart
    \/ OnAllCharactersReady
    \/ OnBattleStart
    \/ \E data \in ResultsData : OnResults(data)
    \/ \E data \in UserEvents : OnUserJoined(data)
    \/ \E data \in UserEvents : OnUserLeft(data)
    \/ \E ids \in ParticipantLists : OnParticipants(ids)
    \/ OnError

\* C14: once the session screen is unmounted no handler it registered with api.on
\* is left registered (each was removed by api.off with its event and itself), the
\* unmount of a version with a socket calls api.disconnect, and no handler of the
\* unmounted screen runs on a later event.
C14_UnmountUnsubscribes ==
    /\ [](~mounted => subscribed = {})
    /\ [][(mounted /\ ~mounted' /\ variant \in SocketVariants)
          => emitted' = <<[msg |-> "disconnect", id |-> <<"#null">>]>>]_vars
    /\ [][~mounted => ~C14_HandlerRuns]_vars

\* part_001 was unmounted with its socket open, after it had registered its
\* handlers: none is left, and api.disconnect was the call of the step
C14_Witness ==
    /\ variant = "part_001"
    /\ ~mounted
    /\ connPc = "resolved"
    /\ subscribed = {}
    /\ emitted = <<[msg |-> "disconnect", id |-> <<"#null">>]>>

\* C15: on the session screen a join request is started only when none is in
\* flight, and a generate request only when none is in flight: while one is in
\* flight on a mounted screen isJoining, respectively isCreatingCharacter, is true,
\* and that keeps the form's submit and the Regenerate button out of reach.
C15_SingleFlight ==
    /\ []((mounted /\ joinPc # "idle") => isJoining)
    /\ []((mounted /\ genPc # "idle") => isCreatingCharacter)
    /\ [][JoinSubmit => joinPc = "idle"]_vars
    /\ [][GenSubmit => genPc = "idle"]_vars
    /\ [][(joinPc # "idle" /\ joinPc' # "idle") => jName' = jName]_vars

\* a join request and a generate request are in flight at once, one of each: the
\* server's round_start showed the prompt view before the join was answered
C15_Witness ==
    /\ variant = "part_001"
    /\ mounted
    /\ gameState = "prompt"
    /\ joinPc = "join"
    /\ genPc = "fetch"
    /\ isJoining
    /\ isCreatingCharacter

\* C16 as claimed: once a results event has set battleResults, no later step of
\* the mounted screen changes it.
C16_ResultsNeverChange ==
    [][(mounted' /\ battleResults # <<>>) => battleResults' = battleResults]_vars

\* C17 as claimed: in the versions with a socket, after a user_joined_session
\* event that names a user and carries a name the roster shown has an entry with
\* that user's id, and after a user_left_session event for a user it has none.
C17_RosterFollowsEvents ==
    [][\A data \in UserEvents :
          (data.user_id # <<"#undefined">> /\ data.name # <<"#undefined">>)
          => /\ OnUserJoined(data) => HasId(participants', data.user_id)
             /\ OnUserLeft(data) => ~HasId(participants', data.user_id)]_vars

\* the step is one that writes gameState: a server event's handler, the end of a
\* countdown, or the completion of a join or generate request
C18_Writes ==
    \/ OnRoundStart
    \/ OnBattleStart
    \/ OnAllCharactersReady
    \/ \E data \in ResultsData : OnResults(data)
    \/ BattleStartExpire
    \/ WaitingExpire
    \/ (joinPc # "idle" /\ joinPc' = "idle")
    \/ (genPc # "idle" /\ genPc' = "idle")

\* C18: the last writer wins.  On a mounted screen each step that writes gameState
\* leaves it at that step's own target, whatever it was before: "lobby" for the
\* completion of a join request, "waiting" for that of a generate request,
\* "prompt" for round_start and the end of the lobby countdown, "battle" for
\* battle_start, the end of the waiting countdown and an all_characters_ready that
\* finds "waiting", "results" for results; and gameState changes in no other step.
C18_LastWriterWins ==
    /\ [][(mounted /\ joinPc # "idle" /\ joinPc' = "idle") => gameState' = "lobby"]_vars
    /\ [][(mounted /\ genPc # "idle" /\ genPc' = "idle") => gameState' = "waiting"]_vars
    /\ [][(OnRoundStart \/ BattleStartExpire) => gameState' = "prompt"]_vars
    /\ [][(OnBattleStart \/ WaitingExpire) => gameState' = "battle"]_vars
    /\ [][(\E data \in ResultsData : OnResults(data)) => gameState' = "results"]_vars
    /\ [][OnAllCharactersReady
          => gameState' = IF gameState = "waiting" THEN "battle" ELSE gameState]_vars
    /\ [][(mounted' /\ gameState' # gameState) => C18_Writes]_vars

\* a results event arrived while the join request was in flight, and the request's
\* completion put the view back to the lobby over it
C18_Witness ==
    /\ variant = "part_001"
    /\ mounted
    /\ gameState = "lobby"
    /\ battleResults # <<>>
    /\ currentPlayer # <<>>
    /\ joinPc = "idle"

\* C19: in part_001 an all_characters_ready event that finds the view in
\* "waiting" sets gameState to "battle" and changes no other state of the
\* component; one that finds any other view changes nothing; and the handler
\* registered is always the one made for the gameState shown, one per event.
C19_AllCharactersReady ==
    /\ [][OnAllCharactersReady
          => /\ variant = "part_001"
             /\ IF gameState = "waiting"
                THEN gameState' = "battle"
                ELSE /\ gameState' = gameState
                     /\ UNCHANGED <<procVars, battleStartTimer, waitingTimer>>
             /\ UNCHANGED <<playerName, currentPlayer, participants, isJoining, prompt,
                            isCreatingCharacter, generatedImage, isStartingGame,
                            battleResults, isConnected, realParticipants, mounted,
                            location>>]_vars
    /\ []((variant = "part_001" /\ mounted)
          => /\ \A h \in subscribed : h.seen = gameState
             /\ \E h \in subscribed : h.event = "all_characters_ready"
             /\ \A h, k \in subscribed : h.event = k.event => h = k)

\* part_001 in "battle" with the generated character, the handlers registered
\* again for that view: where an all_characters_ready that found "waiting" leads
C19_Witness ==
    /\ variant = "part_001"
    /\ mounted
    /\ gameState = "battle"
    /\ generatedImage = <<"blob:">>
    /\ genPc = "idle"
    /\ \A h \in subscribed : h.seen = "battle"

C20_Ready == [msg |-> "characterReady", id |-> <<"S", "1">>]

-----------------------------------------------------------------------------
(* Properties of the connection, the join paths, the roster and the views *)

\* C21: when api.connect resolves after the screen was unmounted, isConnected
\* stays false and nothing is sent; when it resolves on the mounted screen,
\* isConnected becomes true and joinSession is sent once for the session id of
\* the URL; and isConnected becomes true in no other step.
C21_LateConnect ==
    /\ [][ConnectResolve
          => IF mounted
             THEN /\ isConnected'
                  /\ emitted' = <<[msg |-> "joinSession", id |-> <<"S", "1">>]>>
             ELSE /\ ~isConnected'
                  /\ emitted' = <<>>]_vars
    /\ [][(~isConnected /\ isConnected') => (mounted /\ connPc = "pending")]_vars
    /\ [](~mounted => ~isConnected)

\* part_001 was unmounted with a join request waiting and api.connect pending,
\* and api.connect resolved afterwards: nothing was sent
C21_Witness ==
    /\ variant = "part_001"
    /\ ~mounted
    /\ connPc = "resolved"
    /\ ~isConnected
    /\ joinPc = "users"
    /\ ~jConn
    /\ genPc = "idle"
    /\ emitted = <<>>

\* C22: in part_001, POST /session/ is tried only after the join of the URL's
\* session answered non-ok.  When it answers ok with a session id other than the
\* URL's, the browser is sent to "/battle/" followed by that id and joinSession is
\* not sent; when it answers non-ok, the location is left alone, nothing is sent,
\* and the mounted screen shows the lobby with the local player.
C22_CreateAfterFailedJoin ==
    /\ [][(joinPc # "create" /\ joinPc' = "create")
          => (variant = "part_001" /\ joinPc = "join")]_vars
    /\ [][\A answer \in SessionCreateAnswers :
             JoinCreateDone(answer)
             => /\ (answer.kind = "ok" /\ answer.session_id # <<"#undefined">>
                      /\ answer.session_id # <<"S", "1">>)
                   => /\ location' = <<"/", "b", "a", "t", "t", "l", "e", "/">>
                                       \o answer.session_id
                      /\ emitted' = <<>>
                /\ answer.kind = "notok"
                   => /\ location' = location
                      /\ emitted' = <<>>
                      /\ mounted
                         => /\ gameState' = "lobby"
                            /\ currentPlayer' # <<>>
                            /\ currentPlayer'[1].id = <<"u", "0">>
                            /\ ~isJoining']_vars

\* the join answered non-ok, the create answered SRV001: the browser was sent to
\* /battle/SRV001 and no joinSession went out, though the socket was open
C22_Witness ==
    /\ variant = "part_001"
    /\ isConnected
    /\ location = <<"/", "b", "a", "t", "t", "l", "e", "/", "S", "R", "V", "0", "0", "1">>
    /\ gameState = "lobby"
    /\ joinPc = "idle"
    /\ emitted = <<>>

\* C23: in part_001 a session_participants event keeps every entry of the
\* roster as it is and where it is, and appends one entry with name = id for each
\* listed id the roster did not have, once, and nothing else; a payload whose
\* participants field is not an array leaves the roster as it is.
C23_ParticipantsAddsOnly ==
    [][\A ids \in ParticipantLists :
          OnParticipants(ids)
          => IF ids = <<"#undefined">>
             THEN participants' = participants
             ELSE /\ Len(participants') >= Len(participants)
                  /\ SubSeq(participants', 1, Len(participants)) = participants
                  /\ \A i \in (Len(participants) + 1)..Len(participants') :
                        /\ participants'[i].name = participants'[i].id
                        /\ \E j \in 1..Len(ids) : ids[j] = participants'[i].id
                        /\ \A k \in 1..Len(participants) :
                              participants[k].id # participants'[i].id
                  /\ \A j \in 1..Len(ids) :
                        Cardinality({ i \in 1..Len(participants') :
                                        participants'[i].id = ids[j] }) = 1]_vars

\* the roster held the local player under the name typed, and a
\* session_participants event listing both users added the other one as u9/u9
C23_Witness ==
    /\ variant = "part_001"
    /\ mounted
    /\ gameState = "lobby"
    /\ participants = << [id |-> <<"u", "0">>, name |-> <<"a">>],
                         [id |-> <<"u", "9">>, name |-> <<"u", "9">>] >>

\* C24 as claimed: in the results view of part_001 and part_002 the heading
\* announces victory exactly when winner_user_id is the local user's id; for
\* another winner the view names the roster entry with the winner's id, where the
\* roster has one, and shows winner_user_id where it has none.
C24_WinnerNamed ==
    [](View = "results"
       => LET winner == battleResults[1].winner_user_id
              rows == { i \in 1..Len(participants) : participants[i].id = winner }
          IN  /\ (ResultsHeading = <<"Victory!">>) <=> (winner = <<"u", "0">>)
              /\ winner # <<"u", "0">>
                 => \/ rows = {} /\ WinnerShown = winner
                    \/ \E i \in rows : WinnerShown = participants[i].name)

\* the mock participants in the order the lobby lists them
C25_Mocks ==
    << [id |-> <<"1">>, name |-> <<"A", "l">>], [id |-> <<"2">>, name |-> <<"M", "a">>],
       [id |-> <<"3">>, name |-> <<"J", "o">>], [id |-> <<"4">>, name |-> <<"S", "a">>] >>

C26_StartRound ==
    /\ [][StartGame
          => /\ emitted' = IF Len(participants) >= 2
                           THEN <<[msg |-> "startRound", id |-> <<"S", "1">>]>>
                           ELSE <<>>
             /\ ~isStartingGame'
             /\ UNCHANGED <<gameState, participants, currentPlayer, battleResults,
                            generatedImage, isJoining, isCreatingCharacter>>]_vars
    /\ [][(\E i \in 1..Len(emitted') : emitted'[i].msg = "startRound")
          => /\ variant = "part_001"
             /\ mounted
             /\ gameState = "lobby" /\ gameState' = "lobby"
             /\ Len(participants) >= 2
             /\ emitted' = <<[msg |-> "startRound", id |-> <<"S", "1">>]>>]_vars
    /\ [](~isStartingGame)

\* Start Game was pressed in the lobby of part_001 with two participants:
\* startRound went out and the view is still the lobby
C26_Witness ==
    /\ variant = "part_001"
    /\ mounted
    /\ gameState = "lobby"
    /\ Len(participants) = 2
    /\ emitted = <<[msg |-> "startRound", id |-> <<"S", "1">>]>>

\* C27: whenever the mounted screen's gameState is "results", battleResults is
\* set, and the component returns the results view, not null.
C27_ResultsHasData ==
    (mounted /\ gameState = "results")
    => (battleResults # <<>> /\ View = "results")

\* part_002 shows the results view for a player who had joined
C27_Witness ==
    /\ variant = "part_002"
    /\ mounted
    /\ gameState = "results"
    /\ currentPlayer # <<>>
    /\ battleResults # <<>>
    /\ View = "results"

\* C28 as claimed: whenever the mounted screen's gameState is not "join",
\* currentPlayer is set.
C28_PlayerJoined ==
    (mounted /\ gameState # "join") => currentPlayer # <<>>

\* C29 as claimed: the landing screen calls router.push at most once per visit.
C29_OneNavigation == Len(pushed) <= 1

\* the messages the screen sends to the server on its own account
C30_Outbound == {"joinSession", "characterReady", "startRound"}

\* C30 as claimed: in part_001 every step that sends joinSession, characterReady
\* or startRound is taken with isConnected true.
C30_EmitsOnlyConnected ==
    [][(/\ variant = "part_001"
        /\ \E i \in 1..Len(emitted') : emitted'[i].msg \in C30_Outbound)
          => isConnected']_vars

\* the eight events the listener effect of part_001 subscribes to
C31_Events ==
    {"round_start", "all_characters_ready", "battle_start", "results",
     "user_joined_session", "user_left_session", "session_participants", "error"}

\* C31: while the part_001 screen is mounted, exactly one handler is subscribed for
\* each of the eight events, and it is the one made for the current gameState.
C31_OneHandlerEach ==
    (variant = "part_001" /\ mounted)
      => \A e \in C31_Events :
           /\ Cardinality({h \in subscribed : h.event = e}) = 1
           /\ \A h \in subscribed : h.event = e => h.seen = gameState

\* the listener effect has re-run three times and one results handler is subscribed
C31_Witness ==
    /\ variant = "part_001" /\ mounted
    /\ gameState = "waiting"
    /\ {h \in subscribed : h.event = "results"}
         = {[event |-> "results", handler |-> "handleResults", seen |-> "waiting"]}

\* the session screen's part of C32: the step that completes handleJoinSession or
\* handleCreateCharacter leaves its busy flag false
C32_SessionFlags ==
    /\ (joinPc # "idle" /\ joinPc' = "idle") => ~isJoining'
    /\ (genPc # "idle" /\ genPc' = "idle") => ~isCreatingCharacter'

\* C32 as claimed: the step that completes a submit handler (the session screen's
\* handleJoinSession and handleCreateCharacter, the landing screen's
\* handleCreateSession and handleJoinSession) leaves its busy flag false.
C32_FlagsLowered ==
    [][/\ C32_SessionFlags
       /\ (createPc = "fetch" /\ createPc' = "idle") => ~isCreating'
       /\ (homeJoinPc = "sleep" /\ homeJoinPc' = "idle") => ~homeIsJoining']_vars

\* C33 as claimed: in part_001, whenever the mounted screen is in the lobby with
\* currentPlayer set, the roster has an entry with currentPlayer's id.
C33_SelfInRoster ==
    (variant = "part_001" /\ mounted /\ gameState = "lobby" /\ currentPlayer # <<>>)
      => \E i \in 1..Len(participants) : participants[i].id = currentPlayer[1].id

\* what a submit that returns at its first line leaves alone
C34_NoOp ==
    /\ emitted' = <<>>
    /\ location' = location
    /\ UNCHANGED <<gameState, currentPlayer, generatedImage, isJoining,
                   isCreatingCharacter, joinPc, genPc>>

\* C34: a submit of the join form with a blank name, or of the prompt form with a
\* blank prompt, starts no request, sends nothing and changes neither gameState,
\* currentPlayer, generatedImage nor a busy flag; no handler is ever in flight that
\* started from a blank input.
C34_BlankSubmitNoOp ==
    [][/\ (JoinSubmit /\ Trim(playerName) = <<>>) => C34_NoOp
       /\ (GenSubmit /\ Trim(prompt) = <<>>) => C34_NoOp
       /\ (joinPc = "idle" /\ joinPc' # "idle") => Trim(playerName) # <<>>
       /\ (genPc = "idle" /\ genPc' # "idle") => Trim(prompt) # <<>>]_vars

\* the join form holds a whitespace-only name over an open connection: a submit
\* that went on would send joinSession
C34_Witness ==
    /\ mounted /\ gameState = "join" /\ isConnected
    /\ playerName = <<" ">>
    /\ joinPc = "idle" /\ ~isJoining /\ emitted = <<>>
    /\ currentPlayer = <<>>

\* C35: in the timer variants battleStartTimer stays in 0..5 and waitingTimer in
\* 0..3, the two countdown timeouts are never pending together, and while the
\* screen stays mounted neither counter ever goes up.
C35_CountersBounded ==
    /\ [](variant \in TimerVariants
            => /\ battleStartTimer \in 0..5
               /\ waitingTimer \in 0..3
               /\ ~(battleTimeout /\ waitingTimeout))
    /\ [][(variant \in TimerVariants /\ mounted')
            => /\ battleStartTimer' <= battleStartTimer
               /\ waitingTimer' <= waitingTimer]_vars

\* both countdowns have run down to 0 and the screen has reached the battle
C35_Witness ==
    /\ variant \in TimerVariants /\ mounted
    /\ battleStartTimer = 0 /\ waitingTimer = 0
    /\ gameState = "battle"
    /\ ~battleTimeout /\ ~waitingTimeout

====
